---- MODULE Spec2Model ----
(***************************************************************************)
(* docker-run-app: run a command and forward termination signals to it.    *)
(* Model of main.go: the command line (main, parseFlags, eatFlag), the     *)
(* supervisor (runCommand) and the escalation (stopProcess).               *)
(***************************************************************************)
EXTENDS Integers, Sequences, FiniteSets, TLC

\* ---- bounds ----
MaxArgs == 4
MaxPlan == 3

\* ---- AppError (main.go 45-54) ----
OK == 0
AppStoppedWithError == 1
CannotStartApp == 2
FailedToKillApp == 3
MissingArgument == 4
InsufficientSignalError == 5
InvalidCommand == 6
BadFlag == 7

\* ---- FlagError (main.go 56-60) ----
FlagFound == "FlagFound"
FlagNotFound == "FlagNotFound"
FlagHasTooFewParams == "FlagHasTooFewParams"

\* tokens of the command line; DashTokens are those beginning with "-"
DashTokens == {"--", "-h", "--help", "-V", "--version", "--init-log", "-a"}
Tokens == {"--", "-h", "-V", "--init-log", "-a", "/bin/app", "f"}
ArgLists == UNION {[1..n -> Tokens] : n \in 0..MaxArgs}
\* command lines on which the whole program is run
RunArgs == {<<"--", "/bin/app", "-a">>, <<"/bin/app", "--init-log", "f">>, <<>>}

\* strings.HasPrefix(s, "-") over the token universe
HasPrefix(s, prefix) == prefix = "-" /\ s \in DashTokens

\* hasFlag closure of eatFlag
hasFlag(flags, arg) == \E i \in 1..Len(flags) : flags[i] = arg

\* make([]string, n): n empty strings
make(n) == [i \in 1..n |-> ""]

\* the second loop of eatFlag: copy args[a..] to remaining[b..] (a, b 0-based)
RECURSIVE CopyRemaining(_, _, _, _)
CopyRemaining(args, a, b, remaining) ==
  IF a < Len(args)
  THEN CopyRemaining(args, a + 1, b + 1, [remaining EXCEPT ![b + 1] = args[a + 1]])
  ELSE remaining

\* the parameter loop of eatFlag; c runs to availCount, params has paramCount
\* slots, so params[c] with c >= paramCount is an index out of range (panic)
RECURSIVE ParamLoop(_, _, _, _, _)
ParamLoop(args, a, c, availCount, params) ==
  IF c >= availCount THEN [kind |-> "ok", params |-> params, a |-> a]
  ELSE IF ~HasPrefix(args[a + 1], "-")
       THEN IF c >= Len(params) THEN [kind |-> "panic", params |-> <<>>, a |-> a]
            ELSE ParamLoop(args, a + 1, c + 1, availCount,
                           [params EXCEPT ![c + 1] = args[a + 1]])
       ELSE [kind |-> "few", params |-> <<>>, a |-> a]

\* ArgLoop of eatFlag (a, b 0-based as in the code)
RECURSIVE ArgLoop(_, _, _, _, _, _)
ArgLoop(args, flags, paramCount, a, b, remaining) ==
  IF a >= Len(args)
  THEN [panic |-> FALSE, params |-> <<>>, remaining |-> remaining, err |-> FlagNotFound]
  ELSE IF args[a + 1] = "--"
  THEN [panic |-> FALSE, params |-> <<>>,
        remaining |-> CopyRemaining(args, a + 1, b, remaining), err |-> FlagNotFound]
  ELSE IF hasFlag(flags, args[a + 1])
  THEN LET a1 == a + 1
           availCount == Len(args) - a1
       IN IF availCount < paramCount
          THEN [panic |-> FALSE, params |-> <<>>, remaining |-> args,
                err |-> FlagHasTooFewParams]
          ELSE LET r == ParamLoop(args, a1, 0, availCount, make(paramCount))
               IN CASE r.kind = "panic" ->
                         [panic |-> TRUE, params |-> <<>>, remaining |-> args,
                          err |-> FlagNotFound]
                    [] r.kind = "few" ->
                         [panic |-> FALSE, params |-> <<>>, remaining |-> args,
                          err |-> FlagHasTooFewParams]
                    [] OTHER ->
                         [panic |-> FALSE, params |-> r.params,
                          remaining |-> CopyRemaining(args, r.a, b, remaining),
                          err |-> FlagFound]
  ELSE ArgLoop(args, flags, paramCount, a + 1, b + 1,
               [remaining EXCEPT ![b + 1] = args[a + 1]])

eatFlag(args, flags, paramCount) ==
  IF Len(args) = 0
  THEN [panic |-> FALSE, params |-> <<>>, remaining |-> args, err |-> FlagNotFound]
  ELSE ArgLoop(args, flags, paramCount, 0, 0, make(Len(args)))

\* ParamList.getOr
getOr(p, index, def) == IF index < 0 \/ index >= Len(p) THEN def ELSE p[index + 1]

\* parseFlags: kind "ok" (options and remaining returned), "exit" (os.Exit
\* called with code, after printing version or usage) or "panic"
parseFlags(args) ==
  LET v == eatFlag(args, <<"-V", "--version">>, 0) IN
  IF v.panic THEN [kind |-> "panic", code |-> 2, printed |-> "none", initLog |-> "",
                   remaining |-> <<>>]
  ELSE IF v.err = FlagFound
  THEN [kind |-> "exit", code |-> OK, printed |-> "version", initLog |-> "",
        remaining |-> <<>>]
  ELSE
  LET h == eatFlag(v.remaining, <<"-h", "--help">>, 0) IN
  IF h.panic THEN [kind |-> "panic", code |-> 2, printed |-> "none", initLog |-> "",
                   remaining |-> <<>>]
  ELSE IF h.err = FlagFound
  THEN [kind |-> "exit", code |-> OK, printed |-> "usage", initLog |-> "",
        remaining |-> <<>>]
  ELSE
  LET l == eatFlag(h.remaining, <<"--init-log">>, 1) IN
  IF l.panic THEN [kind |-> "panic", code |-> 2, printed |-> "none", initLog |-> "",
                   remaining |-> <<>>]
  ELSE IF l.err = FlagHasTooFewParams
  THEN [kind |-> "exit", code |-> BadFlag, printed |-> "usage", initLog |-> "",
        remaining |-> <<>>]
  ELSE [kind |-> "ok", code |-> OK, printed |-> "none",
        initLog |-> getOr(l.params, 0, ""), remaining |-> l.remaining]


\* ---- state ----
VARIABLES
  args,        \* os.Args[1:]
  pc,          \* position of the main goroutine
  exitKind,    \* "none", "exit" (os.Exit), "panic", "signal" (killed by a signal)
  exitCode,    \* exit status of the supervisor once exitKind # "none"
  err,         \* main's err
  initLog,     \* options["init-log"]
  cmdPath,     \* cmd of main: the command path
  cmdArgs,     \* args of main: the arguments given to exec.Command
  logOut,      \* where the log package writes: "stderr" or "file"
  wrote,       \* the streams that have received a log line
  printed,     \* what was printed on stdout: "none", "usage", "version"
  registered,  \* signal.Notify has been called
  sigs,        \* channel sigs of runCommand (buffer 1)
  done,        \* channel done of runCommand (buffer 1)
  sp,          \* position of the goroutine that starts and waits for the app
  child,       \* the app: "none", "running", "zombie" (exited), "reaped" (waited)
  childStatus, \* "none", "ok" (exit 0), "fail" (exit # 0), "killed"
  process,     \* cmd.Process is set (cmd.Start succeeded)
  sig,         \* the signal received in runCommand
  p,           \* the handle given to stopProcess: "nil" or "proc"
  plan0,       \* sigs of the outermost call of stopProcess
  plan,        \* sigs of the current call of stopProcess
  deliv,       \* the delivery goroutines started, one per attempt
  sent,        \* the signals the OS accepted for the app, in order
  killTried,   \* p.Kill() was called
  sigSuccess,  \* the signal returned by stopProcess
  stopErr,     \* the AppError returned by stopProcess
  timer,       \* the timer of the current attempt of stopProcess has fired
  childAtSig   \* the state of the app when the signal case was taken, or "nil"

vars == <<args, pc, exitKind, exitCode, err, initLog, cmdPath, cmdArgs, logOut,
          wrote, printed, registered, sigs, done, sp, child, childStatus, process,
          sig, p, plan0, plan, deliv, sent, killTried, sigSuccess, stopErr, timer,
          childAtSig>>

cliVars == <<initLog, cmdPath, cmdArgs, logOut, printed>>
runVars == <<registered, sigs, done, sp, child, childStatus, process>>
stopVars == <<sig, p, plan0, plan, deliv, sent, killTried, sigSuccess, stopErr, timer,
              childAtSig>>

TermSignals == {"SIGINT", "SIGTERM"}
Signals == {"SIGINT", "SIGTERM", "SIGHUP"}

InitCommon ==
  /\ exitKind = "none" /\ exitCode = 0 /\ err = OK
  /\ initLog = "" /\ cmdPath = "" /\ cmdArgs = <<>>
  /\ logOut = "stderr" /\ wrote = {} /\ printed = "none"
  /\ sigs = <<>> /\ done = <<>>
  /\ deliv = <<>> /\ sent = <<>> /\ killTried = FALSE
  /\ sigSuccess = "nil" /\ stopErr = OK /\ timer = FALSE

InitIdle ==
  /\ InitCommon
  /\ pc = "main"
  /\ registered = FALSE /\ sp = "none" /\ child = "none" /\ childStatus = "none"
  /\ process = FALSE /\ sig = "nil" /\ p = "nil" /\ plan0 = <<>> /\ plan = <<>>
  /\ childAtSig = "nil"

\* the whole program on the command lines of RunArgs
Init == args \in RunArgs /\ InitIdle

\* a log line goes to the current output of the log package
Log == wrote \cup {logOut}

\* os.Exit(code), from any goroutine
OsExit(code) == pc' = "exited" /\ exitKind' = "exit" /\ exitCode' = code

\* a run-time panic ends the program with status 2
Panic == pc' = "exited" /\ exitKind' = "panic" /\ exitCode' = 2

\* log.Fatal: a log line, then os.Exit(1)
LogFatal == wrote' = Log /\ OsExit(1)

\* main, lines 75-100: parse the flags, open the log file, find the command
Main ==
  /\ pc = "main"
  /\ LET r == parseFlags(args) IN
     CASE r.kind = "panic" ->
            /\ Panic
            /\ UNCHANGED <<err, cliVars, wrote>>
       [] r.kind = "exit" ->
            /\ OsExit(r.code)
            /\ printed' = r.printed
            /\ wrote' = IF r.code = BadFlag THEN Log ELSE wrote
            /\ UNCHANGED <<err, initLog, cmdPath, cmdArgs, logOut>>
       [] OTHER ->
            /\ initLog' = r.initLog
            /\ \E opened \in BOOLEAN :
                 /\ logOut' = IF r.initLog # "" /\ opened THEN "file" ELSE "stderr"
                 /\ LET w1 == IF r.initLog # "" /\ ~opened THEN Log ELSE wrote
                    IN IF Len(r.remaining) = 0
                       THEN /\ printed' = "usage"
                            /\ wrote' = w1 \cup {logOut'}
                            /\ err' = MissingArgument
                            /\ pc' = "mainEnd"
                            /\ UNCHANGED <<cmdPath, cmdArgs>>
                       ELSE /\ cmdPath' = r.remaining[1]
                            /\ cmdArgs' = Tail(r.remaining)
                            /\ wrote' = w1
                            /\ pc' = "runCommand"
                            /\ UNCHANGED <<printed, err>>
            /\ UNCHANGED <<exitKind, exitCode>>
  /\ UNCHANGED <<args, runVars, stopVars>>

\* main, lines 102-106: close the file, os.Exit(int(err))
Exit ==
  /\ pc = "mainEnd"
  /\ OsExit(err)
  /\ UNCHANGED <<args, err, cliVars, wrote, runVars, stopVars>>

\* the command line alone: every argument list up to MaxArgs tokens
InitCli == args \in ArgLists /\ InitIdle
NextCli == Main \/ Exit
SpecCli == InitCli /\ [][NextCli]_vars


\* ---- runCommand ----

\* Notify without the call of signal.Notify
Notify_Skipped ==
  /\ pc = "runCommand"
  /\ pc' = "go"
  /\ UNCHANGED <<args, exitKind, exitCode, err, cliVars, wrote, runVars, stopVars>>

\* line 234: signal.Notify(sigs, SIGINT, SIGTERM)
Notify ==
  /\ pc = "runCommand"
  /\ registered' = TRUE
  /\ pc' = "go"
  /\ UNCHANGED <<args, exitKind, exitCode, err, cliVars, wrote, sigs, done, sp, child,
                 childStatus, process, stopVars>>

\* line 238: go func() {...}
Go ==
  /\ pc = "go"
  /\ sp' = "start"
  /\ pc' = "select"
  /\ UNCHANGED <<args, exitKind, exitCode, err, cliVars, wrote, registered, sigs, done,
                 child, childStatus, process, stopVars>>

\* the environment sends SIGINT or SIGTERM to the supervisor: queued on sigs
\* when registered (dropped when the buffer is full), deadly otherwise
EnvSignal ==
  /\ pc # "exited"
  /\ \E s \in TermSignals :
       IF registered
       THEN /\ sigs = <<>>
            /\ sigs' = <<s>>
            /\ UNCHANGED <<pc, exitKind, exitCode>>
       ELSE /\ pc' = "exited" /\ exitKind' = "signal"
            /\ UNCHANGED <<sigs, exitCode>>
  /\ UNCHANGED <<args, err, cliVars, wrote, registered, done, sp, child, childStatus,
                 process, stopVars>>

\* lines 239-256 of the goroutine: cmd.Start(); log.Fatal on failure
Start ==
  /\ pc # "exited" /\ sp = "start"
  /\ \/ /\ process' = TRUE /\ child' = "running" /\ sp' = "wait"
        /\ wrote' = Log
        /\ UNCHANGED <<pc, exitKind, exitCode>>
     \/ /\ LogFatal
        /\ UNCHANGED <<process, child, sp>>
  /\ UNCHANGED <<args, err, cliVars, registered, sigs, done, childStatus, stopVars>>

\* the app ends by itself, with exit code 0 or not
ChildExit ==
  /\ pc # "exited" /\ child = "running"
  /\ child' = "zombie"
  /\ \E st \in {"ok", "fail"} : childStatus' = st
  /\ UNCHANGED <<args, pc, exitKind, exitCode, err, cliVars, wrote, registered, sigs,
                 done, sp, process, stopVars>>

\* lines 262-263 of the goroutine: err = cmd.Wait(); done <- err
Wait ==
  /\ pc # "exited" /\ sp = "wait" /\ child = "zombie"
  /\ child' = "reaped"
  /\ done' = <<childStatus>>
  /\ sp' = "end"
  /\ UNCHANGED <<args, pc, exitKind, exitCode, err, cliVars, wrote, registered, sigs,
                 childStatus, process, stopVars>>

\* WaitStatus with the error of cmd.Wait ignored
WaitStatus_IgnoreErr(e) == OK

\* lines 269-275: the status of a run whose app ended by itself
WaitStatus(e) == IF e = "ok" THEN OK ELSE AppStoppedWithError

\* lines 268-275: case err := <-done
SelectDone ==
  /\ pc = "select" /\ done # <<>>
  /\ err' = WaitStatus(Head(done))
  /\ done' = <<>>
  /\ wrote' = Log
  /\ pc' = "mainEnd"
  /\ UNCHANGED <<args, exitKind, exitCode, cliVars, registered, sigs, sp, child,
                 childStatus, process, stopVars>>

\* line 279: the signals given to stopProcess after the process
Escalation(s) == <<s, "SIGTERM", "SIGHUP">>

\* lines 276-279: case sig := <-sigs; call stopProcess(cmd.Process, ...)
SelectSig ==
  /\ pc = "select" /\ sigs # <<>>
  /\ sig' = Head(sigs)
  /\ sigs' = <<>>
  /\ wrote' = Log
  /\ p' = IF process THEN "proc" ELSE "nil"
  /\ plan0' = Escalation(Head(sigs))
  /\ plan' = Escalation(Head(sigs))
  /\ childAtSig' = child
  /\ pc' = "stopProcess"
  /\ UNCHANGED <<args, exitKind, exitCode, err, cliVars, registered, done, sp, child,
                 childStatus, process, deliv, sent, killTried, sigSuccess, stopErr,
                 timer>>

\* StopStatus without the case of the received signal
StopStatus_NoReceivedCase(success, received) ==
  IF success = "SIGINT" THEN OK ELSE InsufficientSignalError

\* StopStatus with SIGTERM in place of SIGINT in the second case
StopStatus_TermCase(success, received) ==
  IF success = received THEN OK
  ELSE IF success = "SIGTERM" THEN OK
  ELSE InsufficientSignalError

\* lines 289-296: did app stop with the expected signal?
StopStatus(success, received) ==
  IF success = received THEN OK
  ELSE IF success = "SIGINT" THEN OK
  ELSE InsufficientSignalError

\* AfterStop that looks at done for the status when the app has ended
AfterStop_ReadsDone ==
  /\ pc = "stopped"
  /\ wrote' = Log
  /\ IF done # <<>>
     THEN err' = WaitStatus(Head(done)) /\ done' = <<>>
     ELSE /\ err' = IF stopErr # OK THEN stopErr ELSE StopStatus(sigSuccess, sig)
          /\ UNCHANGED done
  /\ pc' = "mainEnd"
  /\ UNCHANGED <<args, exitKind, exitCode, cliVars, registered, sigs, sp, child,
                 childStatus, process, stopVars>>

\* lines 281-296: back in runCommand with the result of stopProcess
AfterStop ==
  /\ pc = "stopped"
  /\ wrote' = Log
  /\ err' = IF stopErr # OK THEN stopErr ELSE StopStatus(sigSuccess, sig)
  /\ pc' = "mainEnd"
  /\ UNCHANGED <<args, exitKind, exitCode, cliVars, runVars, stopVars>>

\* ---- stopProcess ----

\* line 313: what stopProcess returns after p.Kill() succeeded
KillStatus == FailedToKillApp

\* NextSigs without stripping the head
NextSigs_KeepHead(s) == s

\* lines 328, 331: the signals of the recursive call
NextSigs(s) == Tail(s)

\* lines 308-321: kill when no signal is left, else start the delivery goroutine
StopProcess ==
  /\ pc = "stopProcess"
  /\ IF plan = <<>>
     THEN /\ killTried' = TRUE
          /\ IF p = "nil"
             THEN /\ Panic
                  /\ UNCHANGED <<wrote, child, childStatus, sent, sigSuccess, stopErr>>
             ELSE \/ /\ child # "reaped"
                     /\ sent' = Append(sent, "SIGKILL")
                     /\ child' = IF child = "running" THEN "zombie" ELSE child
                     /\ childStatus' = IF child = "running" THEN "killed" ELSE childStatus
                     /\ sigSuccess' = "nil"
                     /\ stopErr' = KillStatus
                     /\ pc' = "stopped"
                     /\ UNCHANGED <<wrote, exitKind, exitCode>>
                  \/ /\ LogFatal
                     /\ UNCHANGED <<child, childStatus, sent, sigSuccess, stopErr>>
          /\ UNCHANGED <<deliv, timer>>
     ELSE /\ deliv' = Append(deliv, [sig |-> Head(plan), st |-> "pending"])
          /\ timer' = FALSE
          /\ pc' = "stopSelect"
          /\ UNCHANGED <<wrote, exitKind, exitCode, child, childStatus, sent, killTried,
                         sigSuccess, stopErr>>
  /\ UNCHANGED <<args, err, cliVars, registered, sigs, done, sp, process, sig, p, plan0,
                 plan, childAtSig>>

\* lines 318-321: a delivery goroutine calls p.Signal(sigs[0]) and sends the
\* result on its channel c; a finished (waited) process refuses the signal
Deliver ==
  /\ pc # "exited"
  /\ \E i \in 1..Len(deliv) :
       /\ deliv[i].st = "pending"
       /\ IF p = "nil"
          THEN /\ Panic
               /\ wrote' = Log
               /\ UNCHANGED <<deliv, sent>>
          ELSE /\ \/ /\ child # "reaped"
                     /\ deliv' = [deliv EXCEPT ![i].st = "ok"]
                     /\ sent' = Append(sent, deliv[i].sig)
                  \/ /\ deliv' = [deliv EXCEPT ![i].st = "err"]
                     /\ UNCHANGED sent
               /\ wrote' = Log
               /\ UNCHANGED <<pc, exitKind, exitCode>>
  /\ UNCHANGED <<args, err, cliVars, runVars, sig, p, plan0, plan, killTried, sigSuccess,
                 stopErr, timer, childAtSig>>

\* StopRecv without the test of err: any delivery result ends the escalation
StopRecv_IgnoreErr ==
  /\ pc = "stopSelect"
  /\ deliv[Len(deliv)].st \in {"ok", "err"}
  /\ sigSuccess' = Head(plan)
  /\ stopErr' = OK
  /\ pc' = "stopped"
  /\ UNCHANGED <<args, exitKind, exitCode, err, cliVars, wrote, runVars, sig, p, plan0,
                 plan, deliv, sent, killTried, timer, childAtSig>>

\* lines 324-329: case err := <-c
StopRecv ==
  /\ pc = "stopSelect"
  /\ deliv[Len(deliv)].st \in {"ok", "err"}
  /\ IF deliv[Len(deliv)].st = "ok"
     THEN /\ sigSuccess' = Head(plan)
          /\ stopErr' = OK
          /\ pc' = "stopped"
          /\ UNCHANGED plan
     ELSE /\ plan' = NextSigs(plan)
          /\ pc' = "stopProcess"
          /\ UNCHANGED <<sigSuccess, stopErr>>
  /\ UNCHANGED <<args, exitKind, exitCode, err, cliVars, wrote, runVars, sig, p, plan0,
                 deliv, sent, killTried, timer, childAtSig>>

\* line 330: SIG_TIMEOUT after the select was entered, the channel of
\* time.After becomes ready
TimerFire ==
  /\ pc = "stopSelect" /\ ~timer
  /\ timer' = TRUE
  /\ UNCHANGED <<args, pc, exitKind, exitCode, err, cliVars, wrote, runVars, sig, p,
                 plan0, plan, deliv, sent, killTried, sigSuccess, stopErr, childAtSig>>

\* lines 330-331: case <-time.After(SIG_TIMEOUT)
StopTimeout ==
  /\ pc = "stopSelect" /\ timer
  /\ plan' = NextSigs(plan)
  /\ pc' = "stopProcess"
  /\ UNCHANGED <<args, exitKind, exitCode, err, cliVars, wrote, runVars, sig, p, plan0,
                 deliv, sent, killTried, sigSuccess, stopErr, timer, childAtSig>>

Next ==
  \/ Main \/ Notify \/ Go \/ EnvSignal \/ Start \/ ChildExit \/ Wait
  \/ SelectDone \/ SelectSig \/ StopProcess \/ Deliver \/ StopRecv \/ TimerFire
  \/ StopTimeout
  \/ AfterStop \/ Exit

Spec == Init /\ [][Next]_vars


\* ---- stopProcess alone, on every signal sequence up to MaxPlan signals ----
Plans == UNION {[1..n -> Signals] : n \in 0..MaxPlan}

InitEscalate ==
  /\ InitCommon
  /\ args = <<"/bin/app">> /\ pc = "stopProcess"
  /\ registered = TRUE /\ sp = "wait" /\ child = "running" /\ childStatus = "none"
  /\ process = TRUE /\ sig = "nil" /\ p = "proc"
  /\ plan0 \in Plans /\ plan = plan0 /\ childAtSig = "running"

NextEscalate ==
  \/ StopProcess \/ Deliver \/ StopRecv \/ TimerFire \/ StopTimeout \/ ChildExit
  \/ Wait

SpecEscalate == InitEscalate /\ [][NextEscalate]_vars

\* the goroutine in stopProcess is always scheduled, the timer fires, and the
\* select takes a case that is ready
FairEscalate ==
  /\ SpecEscalate
  /\ WF_vars(StopProcess)
  /\ WF_vars(TimerFire)
  /\ WF_vars(StopRecv \/ StopTimeout)

\* ---- properties ----

IsPrefix(s, t) == Len(s) <= Len(t) /\ \A i \in 1..Len(s) : s[i] = t[i]

\* the signals the supervisor has tried on the app, in the order of the attempts
Attempted ==
  [i \in 1..Len(deliv) |-> deliv[i].sig] \o (IF killTried THEN <<"SIGKILL">> ELSE <<>>)

\* the number of attempts of stopProcess: signals tried, plus the kill
Attempts == Len(deliv) + (IF killTried THEN 1 ELSE 0)

\* runCommand has returned through the signal branch
ReturnedBySignal == pc = "mainEnd" /\ sig # "nil"

\* stopProcess returned because the n-th signal of the plan was accepted
AcceptedAt(n) ==
  /\ ReturnedBySignal /\ ~killTried
  /\ Len(deliv) = n /\ deliv[n].st = "ok"

\* C1: after a termination signal sig, the signals tried on the app are, in
\* this order, sig, SIGTERM and the kill, and no other signal
C1_OnlySigTermKill ==
  (sig # "nil" /\ p = "proc") => IsPrefix(Attempted, <<sig, "SIGTERM", "SIGKILL">>)

\* C2: when the first signal of the escalation (the received one) is accepted,
\* run returns OK, whether SIGINT or SIGTERM was received
C2_FirstAcceptedIsOK ==
  AcceptedAt(1) => (sigSuccess = sig /\ err = OK)

C2_Witness == AcceptedAt(1) /\ sig = "SIGTERM" /\ child = "running"

\* C3 as stated: when the first signal is not accepted and the fallback SIGTERM
\* is, run returns InsufficientSignalError whenever the received signal was not
\* SIGINT
C3_InsufficientUnlessInt ==
  (AcceptedAt(2) /\ sig # "SIGINT") => err = InsufficientSignalError

\* C3 as amended: when the first signal is not accepted and the fallback SIGTERM
\* is, run returns InsufficientSignalError when SIGINT was received, and OK when
\* SIGTERM was received (the accepted signal is then the received one)
C3_InsufficientAfterInt ==
  AcceptedAt(2) =>
    /\ sigSuccess = "SIGTERM"
    /\ err = IF sig = "SIGINT" THEN InsufficientSignalError ELSE OK

C3_Witness == AcceptedAt(2) /\ sig = "SIGINT" /\ err = InsufficientSignalError

\* C4: when every signal of the plan failed or timed out and the kill
\* succeeded, no signal is reported and run returns InsufficientSignalError
C4_KilledIsInsufficient ==
  (ReturnedBySignal /\ killTried) =>
    (sigSuccess = "nil" /\ err = InsufficientSignalError)

\* the kill was called on a started process and failed
KillFailed == killTried /\ p = "proc" /\ \A i \in 1..Len(sent) : sent[i] # "SIGKILL"

\* C5: when the final kill fails, the supervisor ends with exit status
\* FailedToKillApp, and nothing is tried after the failed kill
C5_KillFailureStatus ==
  KillFailed => (pc = "exited" /\ exitKind = "exit" /\ exitCode = FailedToKillApp)

\* C6: stopProcess on a sequence S makes at most Len(S)+1 attempts and ends,
\* by returning a result or by the fatal exit
C6_Terminates ==
  /\ [](Attempts <= Len(plan0) + 1)
  /\ <>(pc \in {"stopped", "exited"})

C6_Witness == pc = "stopped" /\ Len(plan0) = MaxPlan /\ Attempts = Len(plan0) + 1

\* the child-exited branch of the select was taken: done was filled, and emptied
DoneBranch == sp = "end" /\ done = <<>>

\* C7: when the app ends by itself and that is what the supervisor sees, run
\* returns OK for exit code 0 and AppStoppedWithError otherwise, this is the
\* exit status, and no signal is ever tried on the app
C7_ChildExitStatus ==
  DoneBranch =>
    /\ pc \in {"mainEnd", "exited"}
    /\ err = (IF childStatus = "ok" THEN OK ELSE AppStoppedWithError)
    /\ exitKind # "none" => (exitKind = "exit" /\ exitCode = err)
    /\ Attempted = <<>> /\ sent = <<>>

C7_Witness ==
  DoneBranch /\ pc = "exited" /\ childStatus = "fail" /\ sigs = <<>>
  /\ exitCode = AppStoppedWithError

\* cmd.Start failed: only then does os.Exit happen with the goroutine at Start
SpawnFailed == exitKind = "exit" /\ sp = "start"

\* C8: when the spawn fails, the exit status is CannotStartApp
C8_SpawnFailureStatus == SpawnFailed => exitCode = CannotStartApp

\* C9: when run returns through the signal branch, the app has terminated
C9_ReturnedMeansStopped ==
  ReturnedBySignal => child \in {"zombie", "reaped"}

\* the position of the first "--" of args, 0 when there is none
RECURSIVE FirstDashDash(_, _)
FirstDashDash(a, i) ==
  IF i > Len(a) THEN 0 ELSE IF a[i] = "--" THEN i ELSE FirstDashDash(a, i + 1)

\* "--" is there, a command path follows it, and before it stand no tokens or
\* only --init-log FILE
CommandAfterDashDash ==
  LET i == FirstDashDash(args, 1) IN
  /\ i > 0 /\ i < Len(args)
  /\ args[i + 1] = "/bin/app"
  /\ SubSeq(args, 1, i - 1) \in {<<>>, <<"--init-log", "f">>}

\* C10: the first token after "--" is the command, and the tokens after it are
\* its arguments, the same tokens in the same order
C10_LiteralAfterDashDash ==
  (pc # "main" /\ CommandAfterDashDash) =>
    LET i == FirstDashDash(args, 1) IN
    /\ pc = "runCommand"
    /\ cmdPath = args[i + 1]
    /\ cmdArgs = SubSeq(args, i + 2, Len(args))


\* args is --init-log f, then /bin/app and plain arguments, or "--" and /bin/app
\* with any arguments
InitLogThenCommand ==
  LET n == Len(args) IN
  /\ n >= 3 /\ args[1] = "--init-log" /\ args[2] = "f"
  /\ \/ args[3] = "/bin/app" /\ \A i \in 4..n : args[i] \in {"/bin/app", "f"}
     \/ n >= 4 /\ args[3] = "--" /\ args[4] = "/bin/app"

\* C11: --init-log FILE COMMAND [ARGS...], with or without "--" before COMMAND,
\* is parsed as init-log = FILE with COMMAND run, and when FILE opens no log
\* line goes to the default stream
C11_InitLogThenCommand ==
  (pc # "main" /\ InitLogThenCommand) =>
    /\ pc = "runCommand"
    /\ initLog = "f"
    /\ cmdPath = "/bin/app"
    /\ logOut = "file" => "stderr" \notin wrote

\* token t is among the flags of args: before the first "--", if any
AmongFlags(t) ==
  \E i \in 1..Len(args) :
    /\ args[i] = t
    /\ FirstDashDash(args, 1) = 0 \/ i < FirstDashDash(args, 1)

\* t is not a token of args
Absent(t) == \A i \in 1..Len(args) : args[i] # t

\* --init-log is among the flags, and it is the last token or a token
\* beginning with "-" follows it
InitLogWithoutValue ==
  \E i \in 1..Len(args) :
    /\ args[i] = "--init-log"
    /\ FirstDashDash(args, 1) = 0 \/ i < FirstDashDash(args, 1)
    /\ i = Len(args) \/ args[i + 1] \in DashTokens

\* C12: --init-log without a value, or followed by a flag, ends the program
\* with BadFlag after printing the usage (on command lines without -h and -V)
C12_InitLogWithoutValue ==
  (pc # "main" /\ InitLogWithoutValue /\ Absent("-h") /\ Absent("-V")) =>
    (exitKind = "exit" /\ exitCode = BadFlag /\ printed = "usage")

\* the command lines made of the flags --init-log FILE and "--" alone
NoCommandArgs ==
  {<<>>, <<"--">>, <<"--init-log", "f">>, <<"--init-log", "f", "--">>}

\* C13: when no command token is left after the flags, the program reports
\* MissingArgument and runs no command
C13_NoCommandIsMissingArgument ==
  (pc # "main" /\ args \in NoCommandArgs) =>
    /\ pc \in {"mainEnd", "exited"}
    /\ err = MissingArgument
    /\ cmdPath = "" /\ cmdArgs = <<>>
    /\ exitKind # "none" => (exitKind = "exit" /\ exitCode = MissingArgument)

\* C14: -h among the flags prints the usage, -V among the flags prints the
\* version, and the program exits with 0 without running a command, whatever
\* follows the flag (on command lines with only one of the two)
C14_HelpVersionExit ==
  /\ (pc # "main" /\ AmongFlags("-h") /\ Absent("-V")) =>
       (exitKind = "exit" /\ exitCode = OK /\ printed = "usage")
  /\ (pc # "main" /\ AmongFlags("-V") /\ Absent("-h")) =>
       (exitKind = "exit" /\ exitCode = OK /\ printed = "version")


\* in the select of stopProcess both cases are ready: the delivery goroutine
\* has sent its result and the timer has fired
BothReady ==
  /\ pc = "stopSelect" /\ timer
  /\ deliv[Len(deliv)].st \in {"ok", "err"}

\* C15 as stated: when the delivery result and the timeout are both ready, the
\* timeout case is the one taken and the escalation goes to the next signal
C15_TimeoutWins ==
  [][(BothReady /\ pc' # "stopSelect") =>
       (pc' = "stopProcess" /\ plan' = Tail(plan))]_vars

\* C15 as amended: when both are ready either case may be taken; the timeout
\* case goes to the next signal, the delivery case returns the signal when it
\* was accepted and goes to the next signal when it was not
C15_EitherCase ==
  [][(BothReady /\ pc' # "stopSelect") =>
       \/ pc' = "stopProcess" /\ plan' = Tail(plan)
       \/ /\ deliv[Len(deliv)].st = "ok"
          /\ pc' = "stopped" /\ sigSuccess' = Head(plan) /\ stopErr' = OK]_vars

\* the delivery case was taken although the timer had fired
C15_Witness ==
  pc = "stopped" /\ timer /\ ~killTried /\ stopErr = OK /\ sigSuccess = Head(plan)


C17_BranchesExclusive ==
  /\ DoneBranch =>
       (sig = "nil" /\ childAtSig = "nil" /\ Attempted = <<>> /\ sent = <<>>)
  /\ sig # "nil" =>
       /\ ~DoneBranch
       /\ sp = "end" => done = <<childStatus>>
       /\ err # AppStoppedWithError

\* the app failed and its result was ready, but the signal case decided: OK
C17_Witness ==
  /\ sig # "nil" /\ pc = "mainEnd" /\ err = OK
  /\ sp = "end" /\ done = <<"fail">>


\* C18: when the app had ended and been waited for before the signal case was
\* taken, the escalation does not reach the failed kill: run returns
C18_AlreadyExitedReturns ==
  (sig # "nil" /\ childAtSig = "reaped") =>
    /\ ~KillFailed
    /\ pc = "exited" => (exitKind = "exit" /\ exitCode = err)

\* the delivery goroutines that have not called p.Signal yet
Pending == {i \in 1..Len(deliv) : deliv[i].st = "pending"}

\* the place of signal s in the plan followed by the kill
PlanPos(s) ==
  LET full == plan0 \o <<"SIGKILL">>
  IN CHOOSE i \in 1..Len(full) : full[i] = s /\ \A j \in 1..(i - 1) : full[j] # s

\* C19: on a started app at most one delivery is pending, and the signals reach
\* the app in the order of the plan (stated for the plan after SIGINT, whose
\* signals differ)
C19_InPlanOrder ==
  /\ p = "proc" => Cardinality(Pending) <= 1
  /\ (p = "proc" /\ plan0 = Escalation("SIGINT")) =>
       \A i \in 1..Len(sent) : \A j \in i..Len(sent) :
         PlanPos(sent[i]) <= PlanPos(sent[j])

\* C20: stopProcess is only called with the handle of a started app, and no
\* signal or kill is tried on a nil handle
C20_StartedHandle ==
  sig # "nil" => (p = "proc" /\ exitKind # "panic")

====
